---- MODULE Spec2Model ----
(***************************************************************************)
(* bthread::WorkStealingQueue<T> (src/src/bthread/work_stealing_queue.h)   *)
(* as a state machine whose steps are the atomic loads, stores and         *)
(* compare-exchanges of init/push/pop/steal, interleaved between one owner *)
(* thread and NThieves thief threads; and the bthread_make_fcontext /      *)
(* bthread_jump_fcontext contract (src/src/bthread/context.h).             *)
(*                                                                         *)
(* Memory model: every atomic access is one step of a sequentially         *)
(* consistent interleaving.  An atomic_thread_fence(seq_cst) is folded     *)
(* into the load that follows it (in an interleaving of atomic steps the   *)
(* fence itself changes nothing).  The counters are size_t; they start at  *)
(* 1 and move by one per operation, so no wrap-around is reachable within  *)
(* the bounds and they are modelled as naturals.                           *)
(***************************************************************************)
EXTENDS Integers, Sequences, FiniteSets, TLC

\* ---------------------------------------------------------------- bounds
\* Successful pushes in one run (items are tagged 1..MaxPush in push order).
MaxPush == 3
\* Number of thief threads.
NThieves == 2
\* init() is tried with every capacity argument in 0..MaxCap.
MaxCap == 3
\* Rounds of back-and-forth switching between the two contexts.
MaxIter == 3
\* The words passed across a context switch are 1..MaxVal.
MaxVal == 2

\* ------------------------------------------------------ program constants
\* WorkStealingQueue(): _bottom(1), _top(1), _capacity(0).
InitBottom == 1
InitTop == 1
InitCapacity == 0
\* init(): return values of its five return statements.
RcAlreadyInitialized == -1
RcZeroCapacity == -1
RcNotPowerOfTwo == -1
RcNoMemory == -1
RcOk == 0

\* The owner thread's id; thieves are 1..NThieves.
Owner == 0
Thieves == 1..NThieves
Threads == {Owner} \cup Thieves
Items == 1..MaxPush
InitArgs == 0..MaxCap

VARIABLES
    bottom,     \* _bottom
    top,        \* _top
    capacity,   \* _capacity
    buffer,     \* _buffer: slot -> value; the empty function is NULL
    pc,         \* each thread's position inside push/pop/steal, or "idle"
    lb,         \* each thread's local b, while the code still reads it
    lt,         \* each thread's local t, while the code still reads it
    lval,       \* each thread's *val
    nextItem,   \* the tag the next push passes as x
    dcount,     \* history: value -> how many pops/steals returned it
    nTaken,     \* history: pops and steals that returned true
    ret,        \* history: the owner's last finished call and its result
    seqHist,    \* history: no two calls have overlapped so far
    ref,        \* history: reference deque of a sequential run
    filled,     \* history: logical index -> the value its push stored
    tracing,    \* whether the run records the history of steal calls
    disturbed   \* history: the watched thief's steal call met an empty
                \* queue or a pop in flight

qvars == <<bottom, top, capacity, buffer, pc, lb, lt, lval, nextItem,
           dcount, nTaken, ret, seqHist, ref, filled, tracing, disturbed>>

VARIABLES
    running,    \* the context the thread is executing
    saved,      \* each context's saved-state blob
    hvar,       \* the program's two bthread_fcontext_t variables
    cpc,        \* each context's position in its code ("" while suspended)
    counter,    \* each context's counter, a local of its own stack frame
    recv,       \* each context's last received word
    entryArg,   \* the argument fn was started with (0: not started)
    lastSent,   \* history: the vp of the last bthread_jump_fcontext
    resumedAt,  \* history: where the last resumed context continued
    suspendedAt,\* history: where each context last suspended
    iters       \* n, the number of rounds of the run

cvars == <<running, saved, hvar, cpc, counter, recv, entryArg, lastSent,
           resumedAt, suspendedAt, iters>>

vars == <<qvars, cvars>>

\* ---------------------------------------------------------------- helpers
\* a & b on size_t, bit by bit.
RECURSIVE BitAnd(_, _)
BitAnd(a, b) ==
    IF a = 0 \/ b = 0 THEN 0
    ELSE (a % 2) * (b % 2) + 2 * BitAnd(a \div 2, b \div 2)

\* Mutant of NotPowerOfTwo: tests the lowest bit only.
NotPowerOfTwo_LowBit(c) == BitAnd(c, 1) # 0

\* init(): capacity & (capacity - 1), the power-of-two test.
NotPowerOfTwo(c) == BitAnd(c, c - 1) # 0

\* The ring index i & (_capacity - 1).
Slot(i) == BitAnd(i, capacity - 1)

\* Mutant of Full: the comparison is off by one.
Full_OffByOne(b, t) == b > t + capacity

\* push(): b >= t + _capacity.
Full(b, t) == b >= t + capacity

\* Mutant of Empty: equal counters are not taken for an empty queue.
Empty_Strict(t, b) == t > b

\* pop()/steal(): t >= b.
Empty(t, b) == t >= b

\* Mutant of volatile_size: the difference is returned without the test of
\* b <= t (the wrapped-around size_t difference shows as a negative number).
volatile_size_NoClamp(b, t) == b - t

\* volatile_size(): (b <= t ? 0 : (b - t)).
volatile_size(b, t) == IF b <= t THEN 0 ELSE b - t

NoRet == [op |-> "none", rc |-> 0, val |-> 0, b0 |-> 0, path |-> ""]

Idle(th) == pc[th] = "idle"
Quiescent == \A th \in Threads : Idle(th)

\* A call by th begins: it overlaps another call iff some other thread is
\* inside one.
BeginSeq(th) ==
    IF seqHist /\ \A o \in Threads \ {th} : Idle(o) THEN TRUE ELSE FALSE

RefAfter(r) == IF seqHist THEN r ELSE <<>>

Front(s) == SubSeq(s, 1, Len(s) - 1)

\* The thief whose steal calls are followed, and the thread that calls
\* volatile_size(): thieves run the same code, so one stands for any.
Watched == NThieves

\* The logical indices a run can reach.
Indices == InitBottom..(InitBottom + MaxPush)

\* The owner is inside pop().
PopInFlight ==
    pc[Owner] \in {"pop_t", "pop_s", "pop_t2", "pop_r", "pop_cas",
                   "pop_won", "pop_lost"}

\* What a steal call may blame a false return on: the queue holds nothing,
\* or a pop is in flight.
Disturbing == PopInFlight \/ top >= bottom

\* The history every step of push/pop/steal keeps, last conjunct of each
\* action.  filled follows the store of L78 and forgets an index once _top
\* has passed it or the owner has given it back; disturbed gathers, for
\* the watched thief's call in flight, whether any state since the call
\* began was Disturbing.
Hist ==
    /\ UNCHANGED cvars
    /\ tracing' = tracing
    /\ filled' = [i \in Indices |->
           IF pc[Owner] = "push_w" /\ pc'[Owner] = "push_s" /\ i = lb[Owner]
           THEN nextItem
           ELSE IF i < top' \/ (pc'[Owner] = "idle" /\ i >= bottom')
           THEN 0
           ELSE filled[i]]
    /\ disturbed' =
           /\ tracing
           /\ pc'[Watched] # "idle"
           /\ \/ pc[Watched] # "idle" /\ disturbed
              \/ Disturbing
              \/ Disturbing'

\* ------------------------------------------------------------------- init
QInit ==
    /\ bottom = InitBottom
    /\ top = InitTop
    /\ capacity = InitCapacity
    /\ buffer = <<>>
    /\ pc = [th \in Threads |-> "idle"]
    /\ lb = [th \in Threads |-> 0]
    /\ lt = [th \in Threads |-> 0]
    /\ lval = [th \in Threads |-> 0]
    /\ nextItem = 1
    /\ dcount = [v \in 0..MaxPush |-> 0]
    /\ nTaken = 0
    /\ ret = NoRet
    /\ seqHist = TRUE
    /\ ref = <<>>
    /\ filled = [i \in Indices |-> 0]
    /\ disturbed = FALSE

\* Mutant of InitPath: the check of _capacity != 0 is missing.
InitPath_NoGuard(c, allocOk) ==
    IF c = 0 THEN "zero"
    ELSE IF NotPowerOfTwo(c) THEN "notpow2"
    ELSE IF ~allocOk THEN "nomem"
    ELSE "ok"

\* int init(size_t capacity): the branch taken, then its effect.  The
\* history keeps the argument of a call that got as far as reading it.
InitPath(c, allocOk) ==
    IF capacity # 0 THEN "already"
    ELSE IF c = 0 THEN "zero"
    ELSE IF NotPowerOfTwo(c) THEN "notpow2"
    ELSE IF ~allocOk THEN "nomem"
    ELSE "ok"

InitRc(path) ==
    CASE path = "already" -> RcAlreadyInitialized
      [] path = "zero"    -> RcZeroCapacity
      [] path = "notpow2" -> RcNotPowerOfTwo
      [] path = "nomem"   -> RcNoMemory
      [] path = "ok"      -> RcOk

\* new(std::nothrow) T[capacity]: capacity slots of unspecified content
\* (0 is no item's tag).
NewBuffer(c) == [s \in 0..(c - 1) |-> 0]

init(c, allocOk) ==
    /\ Idle(Owner)
    /\ LET path == InitPath(c, allocOk) IN
        /\ buffer' = IF path = "ok" THEN NewBuffer(c) ELSE buffer
        /\ capacity' = IF path = "ok" THEN c ELSE capacity
        /\ ret' = [op |-> "init", rc |-> InitRc(path),
                   val |-> IF path = "already" THEN 0 ELSE c,
                   b0 |-> capacity, path |-> path]
    /\ UNCHANGED <<bottom, top, pc, lb, lt, lval, nextItem, dcount, nTaken, seqHist, ref>>
    /\ Hist

\* ------------------------------------------------------------------- push
\* L73: const size_t b = _bottom.load(relaxed);  x is the next fresh tag.
PushLoadBottom ==
    /\ Idle(Owner)
    /\ nextItem <= MaxPush
    /\ lb' = [lb EXCEPT ![Owner] = bottom]
    /\ pc' = [pc EXCEPT ![Owner] = "push_t"]
    /\ ret' = NoRet
    /\ seqHist' = BeginSeq(Owner)
    /\ ref' = IF seqHist' THEN ref ELSE <<>>
    /\ UNCHANGED <<bottom, top, capacity, buffer, lt, lval, nextItem,
                   dcount, nTaken>>
    /\ Hist

\* L74-77: t = _top.load(acquire); if (b >= t + _capacity) return false.
PushLoadTop ==
    /\ pc[Owner] = "push_t"
    /\ IF Full(lb[Owner], top)
       THEN /\ pc' = [pc EXCEPT ![Owner] = "idle"]
            /\ lb' = [lb EXCEPT ![Owner] = 0]
            /\ ret' = [op |-> "push", rc |-> 0, val |-> nextItem,
                       b0 |-> lb[Owner], path |-> "full"]
       ELSE /\ pc' = [pc EXCEPT ![Owner] = "push_w"]
            /\ UNCHANGED <<lb, ret>>
    /\ UNCHANGED <<bottom, top, capacity, buffer, lt, lval, nextItem,
                   dcount, nTaken, seqHist, ref>>
    /\ Hist

\* L78: _buffer[b & (_capacity - 1)] = x.
PushWriteSlot ==
    /\ pc[Owner] = "push_w"
    /\ buffer' = [buffer EXCEPT ![Slot(lb[Owner])] = nextItem]
    /\ pc' = [pc EXCEPT ![Owner] = "push_s"]
    /\ UNCHANGED <<bottom, top, capacity, lb, lt, lval, nextItem, dcount,
                   nTaken, ret, seqHist, ref>>
    /\ Hist

\* L79-80: _bottom.store(b + 1, release); return true.
PushStoreBottom ==
    /\ pc[Owner] = "push_s"
    /\ bottom' = lb[Owner] + 1
    /\ pc' = [pc EXCEPT ![Owner] = "idle"]
    /\ lb' = [lb EXCEPT ![Owner] = 0]
    /\ ret' = [op |-> "push", rc |-> 1, val |-> nextItem,
               b0 |-> lb[Owner], path |-> "pushed"]
    /\ nextItem' = nextItem + 1
    /\ ref' = RefAfter(Append(ref, nextItem))
    /\ UNCHANGED <<top, capacity, buffer, lt, lval, dcount, nTaken,
                   seqHist>>
    /\ Hist

\* -------------------------------------------------------------------- pop
\* L88: const size_t b = _bottom.load(relaxed).
PopLoadBottom ==
    /\ Idle(Owner)
    /\ lb' = [lb EXCEPT ![Owner] = bottom]
    /\ pc' = [pc EXCEPT ![Owner] = "pop_t"]
    /\ ret' = NoRet
    /\ seqHist' = BeginSeq(Owner)
    /\ ref' = IF seqHist' THEN ref ELSE <<>>
    /\ UNCHANGED <<bottom, top, capacity, buffer, lt, lval, nextItem,
                   dcount, nTaken>>
    /\ Hist

\* What a finished pop leaves in the owner's locals and the history.
PopReturn(ok, v, path) ==
    /\ pc' = [pc EXCEPT ![Owner] = "idle"]
    /\ lb' = [lb EXCEPT ![Owner] = 0]
    /\ lt' = [lt EXCEPT ![Owner] = 0]
    /\ lval' = [lval EXCEPT ![Owner] = 0]
    /\ ret' = [op |-> "pop", rc |-> IF ok THEN 1 ELSE 0,
               val |-> IF ok THEN v ELSE 0, b0 |-> lb[Owner], path |-> path]
    /\ dcount' = IF ok THEN [dcount EXCEPT ![v] = @ + 1] ELSE dcount
    /\ nTaken' = IF ok THEN nTaken + 1 ELSE nTaken
    /\ ref' = IF ok THEN RefAfter(Front(ref)) ELSE ref

\* L89-94: size_t t = _top.load(relaxed); if (t >= b) return false.
PopLoadTop ==
    /\ pc[Owner] = "pop_t"
    /\ IF Empty(top, lb[Owner])
       THEN PopReturn(FALSE, 0, "empty")
       ELSE /\ pc' = [pc EXCEPT ![Owner] = "pop_s"]
            /\ UNCHANGED <<lb, lt, lval, ret, dcount, nTaken, ref>>
    /\ UNCHANGED <<bottom, top, capacity, buffer, nextItem, seqHist>>
    /\ Hist

\* L95-96: const size_t newb = b - 1; _bottom.store(newb, relaxed).
PopStoreNewBottom ==
    /\ pc[Owner] = "pop_s"
    /\ bottom' = lb[Owner] - 1
    /\ pc' = [pc EXCEPT ![Owner] = "pop_t2"]
    /\ UNCHANGED <<top, capacity, buffer, lb, lt, lval, nextItem, dcount,
                   nTaken, ret, seqHist, ref>>
    /\ Hist

\* L97-110: fence; t = _top.load(relaxed); if (t > newb) go restore _bottom;
\* *val = _buffer[newb & (_capacity - 1)]; if (t != newb) return true.
\* (Only the owner writes _buffer, so its own read of the slot is taken
\* together with the load of _top.)
PopReloadTop ==
    /\ pc[Owner] = "pop_t2"
    /\ LET newb == lb[Owner] - 1
           t == top
       IN IF t > newb
          THEN /\ pc' = [pc EXCEPT ![Owner] = "pop_r"]
               /\ UNCHANGED <<lb, lt, lval, ret, dcount, nTaken, ref>>
          ELSE IF t # newb
          THEN PopReturn(TRUE, buffer[Slot(newb)], "uncontended")
          ELSE /\ pc' = [pc EXCEPT ![Owner] = "pop_cas"]
               /\ lt' = [lt EXCEPT ![Owner] = t]
               /\ lval' = [lval EXCEPT ![Owner] = buffer[Slot(newb)]]
               /\ UNCHANGED <<lb, ret, dcount, nTaken, ref>>
    /\ UNCHANGED <<bottom, top, capacity, buffer, nextItem, seqHist>>
    /\ Hist

\* Mutant of PopRestoreOvertaken: returns false without storing b back.
PopRestoreOvertaken_NoStore ==
    /\ pc[Owner] = "pop_r"
    /\ bottom' = bottom
    /\ PopReturn(FALSE, 0, "overtaken")
    /\ UNCHANGED <<top, capacity, buffer, nextItem, seqHist>>
    /\ Hist

\* L104-105: _bottom.store(b, relaxed); return false.
PopRestoreOvertaken ==
    /\ pc[Owner] = "pop_r"
    /\ bottom' = lb[Owner]
    /\ PopReturn(FALSE, 0, "overtaken")
    /\ UNCHANGED <<top, capacity, buffer, nextItem, seqHist>>
    /\ Hist

\* Mutant of PopCas: the owner advances _top with a fetch-and-add, whatever
\* _top has become since it was read.
PopCas_FetchAdd ==
    /\ pc[Owner] = "pop_cas"
    /\ top' = top + 1
    /\ pc' = [pc EXCEPT ![Owner] = "pop_won"]
    /\ UNCHANGED <<bottom, capacity, buffer, lb, lt, lval, nextItem, dcount,
                   nTaken, ret, seqHist, ref>>
    /\ Hist

\* Mutant of PopCas: the owner takes the last element with a plain store
\* to _top instead of a compare-exchange.
PopCas_PlainStore ==
    /\ pc[Owner] = "pop_cas"
    /\ top' = lt[Owner] + 1
    /\ pc' = [pc EXCEPT ![Owner] = "pop_won"]
    /\ UNCHANGED <<bottom, capacity, buffer, lb, lt, lval, nextItem, dcount,
                   nTaken, ret, seqHist, ref>>
    /\ Hist

\* L112-113: popped = _top.compare_exchange_strong(t, t + 1, seq_cst, relaxed).
\* pc records popped; t is not read again.
PopCas ==
    /\ pc[Owner] = "pop_cas"
    /\ IF top = lt[Owner]
       THEN /\ top' = lt[Owner] + 1
            /\ pc' = [pc EXCEPT ![Owner] = "pop_won"]
            /\ lt' = lt
       ELSE /\ top' = top
            /\ pc' = [pc EXCEPT ![Owner] = "pop_lost"]
            /\ lt' = lt
    /\ UNCHANGED <<bottom, capacity, buffer, lb, lval, nextItem, dcount,
                   nTaken, ret, seqHist, ref>>
    /\ Hist

\* Mutant of PopRestoreLast: after the compare-exchange _bottom is left at
\* newb, as on the uncontended path.
PopRestoreLast_NoStore ==
    /\ pc[Owner] \in {"pop_won", "pop_lost"}
    /\ bottom' = bottom
    /\ IF pc[Owner] = "pop_won"
       THEN PopReturn(TRUE, lval[Owner], "wonlast")
       ELSE PopReturn(FALSE, 0, "lostlast")
    /\ UNCHANGED <<top, capacity, buffer, nextItem, seqHist>>
    /\ Hist

\* L114-115: _bottom.store(b, relaxed); return popped.
PopRestoreLast ==
    /\ pc[Owner] \in {"pop_won", "pop_lost"}
    /\ bottom' = lb[Owner]
    /\ IF pc[Owner] = "pop_won"
       THEN PopReturn(TRUE, lval[Owner], "wonlast")
       ELSE PopReturn(FALSE, 0, "lostlast")
    /\ UNCHANGED <<top, capacity, buffer, nextItem, seqHist>>
    /\ Hist

\* ------------------------------------------------------------------ steal
\* What a finished steal leaves in the thief's locals and the history.
StealReturn(th, ok, v) ==
    /\ pc' = [pc EXCEPT ![th] = "idle"]
    /\ lb' = [lb EXCEPT ![th] = 0]
    /\ lt' = [lt EXCEPT ![th] = 0]
    /\ lval' = [lval EXCEPT ![th] = 0]
    /\ dcount' = IF ok THEN [dcount EXCEPT ![v] = @ + 1] ELSE dcount
    /\ nTaken' = IF ok THEN nTaken + 1 ELSE nTaken
    /\ ref' = IF ok THEN RefAfter(Tail(ref)) ELSE ref

\* L122: size_t t = _top.load(acquire).
StealLoadTop(th) ==
    /\ Idle(th)
    /\ lt' = [lt EXCEPT ![th] = top]
    /\ pc' = [pc EXCEPT ![th] = "st_b"]
    /\ seqHist' = BeginSeq(th)
    /\ ref' = IF seqHist' THEN ref ELSE <<>>
    /\ UNCHANGED <<bottom, top, capacity, buffer, lb, lval, nextItem,
                   dcount, nTaken, ret>>
    /\ Hist

\* L123-127: size_t b = _bottom.load(acquire); if (t >= b) return false.
StealLoadBottom(th) ==
    /\ pc[th] = "st_b"
    /\ IF Empty(lt[th], bottom)
       THEN StealReturn(th, FALSE, 0)
       ELSE /\ pc' = [pc EXCEPT ![th] = "st_b2"]
            /\ UNCHANGED <<lb, lt, lval, dcount, nTaken, ref>>
    /\ UNCHANGED <<bottom, top, capacity, buffer, nextItem, ret, seqHist>>
    /\ Hist

\* L129-133: fence; b = _bottom.load(acquire); if (t >= b) return false.
StealReloadBottom(th) ==
    /\ pc[th] = "st_b2"
    /\ IF Empty(lt[th], bottom)
       THEN StealReturn(th, FALSE, 0)
       ELSE /\ pc' = [pc EXCEPT ![th] = "st_v"]
            /\ UNCHANGED <<lb, lt, lval, dcount, nTaken, ref>>
    /\ UNCHANGED <<bottom, top, capacity, buffer, nextItem, ret, seqHist>>
    /\ Hist

\* Mutant of StealReadSlot: the thief reads the slot after _top's.
StealReadSlot_NextSlot(th) ==
    /\ pc[th] = "st_v"
    /\ lval' = [lval EXCEPT ![th] = buffer[Slot(lt[th] + 1)]]
    /\ pc' = [pc EXCEPT ![th] = "st_cas"]
    /\ UNCHANGED <<bottom, top, capacity, buffer, lb, lt, nextItem, dcount,
                   nTaken, ret, seqHist, ref>>
    /\ Hist

\* L134: *val = _buffer[t & (_capacity - 1)].
StealReadSlot(th) ==
    /\ pc[th] = "st_v"
    /\ lval' = [lval EXCEPT ![th] = buffer[Slot(lt[th])]]
    /\ pc' = [pc EXCEPT ![th] = "st_cas"]
    /\ UNCHANGED <<bottom, top, capacity, buffer, lb, lt, nextItem, dcount,
                   nTaken, ret, seqHist, ref>>
    /\ Hist

\* Mutant of StealCas: a failed exchange makes steal return false instead
\* of trying again.
StealCas_GiveUp(th) ==
    /\ pc[th] = "st_cas"
    /\ IF top = lt[th]
       THEN /\ top' = lt[th] + 1
            /\ StealReturn(th, TRUE, lval[th])
       ELSE /\ top' = top
            /\ StealReturn(th, FALSE, 0)
    /\ UNCHANGED <<bottom, capacity, buffer, nextItem, ret, seqHist>>
    /\ Hist

\* Mutant of StealCas: the thief advances _top with a fetch-and-add,
\* whatever _top has become since it was read.
StealCas_FetchAdd(th) ==
    /\ pc[th] = "st_cas"
    /\ top' = top + 1
    /\ StealReturn(th, TRUE, lval[th])
    /\ UNCHANGED <<bottom, capacity, buffer, nextItem, ret, seqHist>>
    /\ Hist

\* Mutant of StealCas: a failed exchange leaves t as it was (the expected
\* value is not reloaded).
StealCas_StaleT(th) ==
    /\ pc[th] = "st_cas"
    /\ IF top = lt[th]
       THEN /\ top' = lt[th] + 1
            /\ StealReturn(th, TRUE, lval[th])
       ELSE /\ top' = top
            /\ pc' = [pc EXCEPT ![th] = "st_b2"]
            /\ lval' = [lval EXCEPT ![th] = 0]
            /\ UNCHANGED <<lb, lt, dcount, nTaken, ref>>
    /\ UNCHANGED <<bottom, capacity, buffer, nextItem, ret, seqHist>>
    /\ Hist

\* L135-138: while (!_top.compare_exchange_strong(t, t + 1, ...)); return true.
\* A failed exchange loads _top into t and the loop runs again from L129,
\* where *val is written anew before it is read.
StealCas(th) ==
    /\ pc[th] = "st_cas"
    /\ IF top = lt[th]
       THEN /\ top' = lt[th] + 1
            /\ StealReturn(th, TRUE, lval[th])
       ELSE /\ top' = top
            /\ pc' = [pc EXCEPT ![th] = "st_b2"]
            /\ lt' = [lt EXCEPT ![th] = top]
            /\ lval' = [lval EXCEPT ![th] = 0]
            /\ UNCHANGED <<lb, dcount, nTaken, ref>>
    /\ UNCHANGED <<bottom, capacity, buffer, nextItem, ret, seqHist>>
    /\ Hist

\* ---------------------------------------------------------- volatile_size
\* size_t volatile_size() const, called by a thread other than the owner.
\* L142: const size_t b = _bottom.load(relaxed).
VsLoadBottom(th) ==
    /\ Idle(th)
    /\ lb' = [lb EXCEPT ![th] = bottom]
    /\ pc' = [pc EXCEPT ![th] = "vs_t"]
    /\ seqHist' = BeginSeq(th)
    /\ ref' = IF seqHist' THEN ref ELSE <<>>
    /\ UNCHANGED <<bottom, top, capacity, buffer, lt, lval, nextItem,
                   dcount, nTaken, ret>>
    /\ Hist

\* L143-144: const size_t t = _top.load(relaxed);
\* return (b <= t ? 0 : (b - t)).  The value returned is VsResult(th).
VsLoadTop(th) ==
    /\ pc[th] = "vs_t"
    /\ pc' = [pc EXCEPT ![th] = "idle"]
    /\ lb' = [lb EXCEPT ![th] = 0]
    /\ UNCHANGED <<bottom, top, capacity, buffer, lt, lval, nextItem,
                   dcount, nTaken, ret, seqHist, ref>>
    /\ Hist

\* L142-143 again: both loads are memory_order_relaxed, and nothing orders
\* one before the other, so the load of _top may be satisfied first and
\* the load of _bottom after it.
VsLoadTopEarly(th) ==
    /\ Idle(th)
    /\ lt' = [lt EXCEPT ![th] = top]
    /\ pc' = [pc EXCEPT ![th] = "vs_b"]
    /\ seqHist' = BeginSeq(th)
    /\ ref' = IF seqHist' THEN ref ELSE <<>>
    /\ UNCHANGED <<bottom, top, capacity, buffer, lb, lval, nextItem,
                   dcount, nTaken, ret>>
    /\ Hist

\* The late load of _bottom, and L144.  The value returned is VsResult(th).
VsLoadBottomLate(th) ==
    /\ pc[th] = "vs_b"
    /\ pc' = [pc EXCEPT ![th] = "idle"]
    /\ lt' = [lt EXCEPT ![th] = 0]
    /\ UNCHANGED <<bottom, top, capacity, buffer, lb, lval, nextItem,
                   dcount, nTaken, ret, seqHist, ref>>
    /\ Hist

\* What the volatile_size() call of th returns if its second load is the
\* next step: L144 applied to the value it holds and the one it loads.
VsResult(th) ==
    IF pc[th] = "vs_t"
    THEN volatile_size(lb[th], top)
    ELSE volatile_size(bottom, lt[th])

\* size_t capacity() const { return _capacity; }
QueueCapacity == capacity

\* ------------------------------------------------- execution contexts
\* bthread_make_fcontext / bthread_jump_fcontext are declared in context.h
\* and implemented in per-architecture assembly; their effect is modelled
\* from the contract: a context is a saved-state blob at the top of its own
\* stack, holding where it resumes; a handle refers to the blob written by
\* the context's latest suspension.  Only the integer state is modelled:
\* preserve_fpu changes nothing of it.
Ctxs == {"main", "fiber"}
HVars == {"main_h", "fiber_h"}
Vals == 1..MaxVal
NullHandle == [ctx |-> "", gen |-> 0]
NoBlob == [kind |-> "none", gen |-> 0, ip |-> ""]

\* bthread_make_fcontext(sp, size, fn): the blob it writes on the stack of
\* context c, and the handle it returns.
bthread_make_fcontext(c, fn) ==
    [blob |-> [kind |-> "entry", gen |-> 1, ip |-> fn],
     handle |-> [ctx |-> c, gen |-> 1]]

\* A handle refers to a context that is suspended in the state the handle
\* was minted for.
ValidHandle(h) ==
    /\ h.ctx \in Ctxs
    /\ saved[h.ctx].kind \in {"entry", "jump"}
    /\ saved[h.ctx].gen = h.gen

\* Mutant of ResumePoint: a context made by bthread_make_fcontext is always
\* resumed at fn.
ResumePoint_AlwaysEntry(nfc) ==
    IF nfc.ctx = "fiber" THEN "f_entry" ELSE saved[nfc.ctx].ip

\* Where the context behind nfc continues when it is resumed.
ResumePoint(nfc) == saved[nfc.ctx].ip

\* Mutant of Transferred: the word is not carried over the switch.
Transferred_Lost(vp) == 0

\* The word the resumed side receives.
Transferred(vp) == vp

\* bthread_jump_fcontext(ofc, nfc, vp, preserve_fpu) called by context self
\* with return address retip: saves self, writes its new handle to *ofc,
\* resumes nfc with vp.
bthread_jump_fcontext(self, ofc, nfc, vp, retip) ==
    /\ running = self
    /\ ValidHandle(nfc)
    /\ LET tgt == nfc.ctx
           gen == saved[self].gen + 1
           ip == ResumePoint(nfc)
       IN /\ saved' = [saved EXCEPT
                          ![self] = [kind |-> "jump", gen |-> gen, ip |-> retip],
                          ![tgt] = [kind |-> "live", gen |-> nfc.gen, ip |-> ""]]
          /\ hvar' = [hvar EXCEPT ![ofc] = [ctx |-> self, gen |-> gen]]
          /\ running' = tgt
          /\ cpc' = [cpc EXCEPT ![self] = "", ![tgt] = ip]
          /\ recv' = [recv EXCEPT ![tgt] = Transferred(vp)]
          /\ entryArg' = IF saved[tgt].kind = "entry" THEN Transferred(vp)
                         ELSE entryArg
          /\ lastSent' = vp
          /\ resumedAt' = ip
          /\ suspendedAt' = [suspendedAt EXCEPT ![self] = retip]
    /\ UNCHANGED <<counter, iters>>

CInit ==
    /\ running = "main"
    /\ saved = [c \in Ctxs |-> IF c = "main"
                               THEN [kind |-> "live", gen |-> 0, ip |-> ""]
                               ELSE NoBlob]
    /\ hvar = [h \in HVars |-> NullHandle]
    /\ cpc = [c \in Ctxs |-> IF c = "main" THEN "m_make" ELSE ""]
    /\ counter = [c \in Ctxs |-> 0]
    /\ recv = [c \in Ctxs |-> 0]
    /\ entryArg = 0
    /\ lastSent = 0
    /\ resumedAt = ""
    /\ suspendedAt = [c \in Ctxs |-> ""]
    /\ iters \in 1..MaxIter

\* main: fiber_h = bthread_make_fcontext(stack, size, entry).
MainMake ==
    /\ running = "main" /\ cpc["main"] = "m_make"
    /\ LET m == bthread_make_fcontext("fiber", "f_entry")
       IN /\ saved' = [saved EXCEPT !["fiber"] = m.blob]
          /\ hvar' = [hvar EXCEPT !["fiber_h"] = m.handle]
          /\ suspendedAt' = [suspendedAt EXCEPT !["fiber"] = "f_entry"]
    /\ cpc' = [cpc EXCEPT !["main"] = "m_loop"]
    /\ UNCHANGED <<running, counter, recv, entryArg, lastSent, resumedAt,
                   iters>>
    /\ UNCHANGED qvars

\* main: for (i = 0; i < n; ++i) { ++counter; ...
MainLoop ==
    /\ running = "main" /\ cpc["main"] = "m_loop"
    /\ IF counter["main"] < iters
       THEN /\ counter' = [counter EXCEPT !["main"] = @ + 1]
            /\ cpc' = [cpc EXCEPT !["main"] = "m_jump"]
       ELSE /\ counter' = counter
            /\ cpc' = [cpc EXCEPT !["main"] = "m_done"]
    /\ UNCHANGED <<running, saved, hvar, recv, entryArg, lastSent,
                   resumedAt, suspendedAt, iters>>
    /\ UNCHANGED qvars

\* main: ... r = bthread_jump_fcontext(&main_h, fiber_h, v); }
MainJump(v) ==
    /\ cpc["main"] = "m_jump"
    /\ bthread_jump_fcontext("main", "main_h", hvar["fiber_h"], v, "m_ret")
    /\ UNCHANGED qvars

\* main: the suspended bthread_jump_fcontext returns.
MainReturned ==
    /\ running = "main" /\ cpc["main"] = "m_ret"
    /\ cpc' = [cpc EXCEPT !["main"] = "m_loop"]
    /\ UNCHANGED <<running, saved, hvar, counter, recv, entryArg, lastSent,
                   resumedAt, suspendedAt, iters>>
    /\ UNCHANGED qvars

\* entry(arg): its frame is set up, size_t counter = 0.
FiberEntry ==
    /\ running = "fiber" /\ cpc["fiber"] = "f_entry"
    /\ counter' = [counter EXCEPT !["fiber"] = 0]
    /\ cpc' = [cpc EXCEPT !["fiber"] = "f_loop"]
    /\ UNCHANGED <<running, saved, hvar, recv, entryArg, lastSent,
                   resumedAt, suspendedAt, iters>>
    /\ UNCHANGED qvars

\* entry: for (;;) { ++counter; ...
FiberLoop ==
    /\ running = "fiber" /\ cpc["fiber"] = "f_loop"
    /\ counter' = [counter EXCEPT !["fiber"] = @ + 1]
    /\ cpc' = [cpc EXCEPT !["fiber"] = "f_jump"]
    /\ UNCHANGED <<running, saved, hvar, recv, entryArg, lastSent,
                   resumedAt, suspendedAt, iters>>
    /\ UNCHANGED qvars

\* entry: ... bthread_jump_fcontext(&fiber_h, main_h, s); }
FiberJump(s) ==
    /\ cpc["fiber"] = "f_jump"
    /\ bthread_jump_fcontext("fiber", "fiber_h", hvar["main_h"], s, "f_ret")
    /\ UNCHANGED qvars

\* entry: the suspended bthread_jump_fcontext returns.
FiberReturned ==
    /\ running = "fiber" /\ cpc["fiber"] = "f_ret"
    /\ cpc' = [cpc EXCEPT !["fiber"] = "f_loop"]
    /\ UNCHANGED <<running, saved, hvar, counter, recv, entryArg, lastSent,
                   resumedAt, suspendedAt, iters>>
    /\ UNCHANGED qvars

\* ------------------------------------------------------------------- next
OwnerStep ==
    \/ \E c \in InitArgs, allocOk \in BOOLEAN : init(c, allocOk)
    \/ PushLoadBottom
    \/ PushLoadTop
    \/ PushWriteSlot
    \/ PushStoreBottom
    \/ PopLoadBottom
    \/ PopLoadTop
    \/ PopStoreNewBottom
    \/ PopReloadTop
    \/ PopRestoreOvertaken
    \/ PopCas
    \/ PopRestoreLast

ThiefStep(th) ==
    \/ StealLoadTop(th)
    \/ StealLoadBottom(th)
    \/ StealReloadBottom(th)
    \/ StealReadSlot(th)
    \/ StealCas(th)

Init == QInit /\ CInit /\ iters = 1 /\ tracing = FALSE

Next == OwnerStep \/ \E th \in Thieves : ThiefStep(th)

\* The queue under every interleaving of its owner and its thieves.
Spec == Init /\ [][Next]_vars

\* The same with every thread scheduled fairly.
FairSpec ==
    /\ Spec
    /\ WF_vars(OwnerStep)
    /\ \A th \in Thieves : WF_vars(ThiefStep(th))

\* The queue with the history of steal calls recorded.
TraceInit == QInit /\ CInit /\ iters = 1 /\ tracing = TRUE

TraceSpec == TraceInit /\ [][Next]_vars

VsStep(th) ==
    \/ VsLoadBottom(th)
    \/ VsLoadTop(th)
    \/ VsLoadTopEarly(th)
    \/ VsLoadBottomLate(th)

VsNext ==
    \/ OwnerStep
    \/ \E th \in Thieves \ {Watched} : ThiefStep(th)
    \/ VsStep(Watched)

\* The queue with its owner, thieves, and one more thread that calls
\* volatile_size() again and again.
VsSpec == Init /\ [][VsNext]_vars

CtxInit == QInit /\ CInit /\ tracing = FALSE

CtxNext ==
    \/ MainMake
    \/ MainLoop
    \/ \E v \in Vals : MainJump(v)
    \/ MainReturned
    \/ FiberEntry
    \/ FiberLoop
    \/ \E s \in Vals : FiberJump(s)
    \/ FiberReturned

\* Two contexts switching back and forth on one thread.
CtxSpec == CtxInit /\ [][CtxNext]_vars

TypeOK ==
    /\ bottom \in Nat /\ top \in Nat /\ capacity \in InitArgs
    /\ DOMAIN buffer = 0..(capacity - 1)
    /\ \A s \in DOMAIN buffer : buffer[s] \in 0..MaxPush

\* ----------------------------------------------------------------- claims
\* The logical indices between _top and _bottom whose slot holds v.
InQueue(v) == \E i \in top..(bottom - 1) : buffer[Slot(i)] = v

\* The values whose push has returned true.
Pushed == 1..(nextItem - 1)

\* C1: exactly-once delivery.  Under every interleaving of the owner's
\* push/pop steps with the thieves' steal steps, and for every capacity, no
\* value is returned by more than one successful pop or steal, every value
\* returned is one whose push returned true, and when no call is in flight
\* every pushed item has either been returned (once) or is still between
\* top and bottom, never both and never neither.
C1_ExactlyOnce ==
    /\ \A v \in 0..MaxPush : dcount[v] <= 1
    /\ \A v \in 0..MaxPush : dcount[v] > 0 => v \in Pushed
    /\ Quiescent => \A v \in Pushed : (dcount[v] = 1) # InQueue(v)

\* C1 witness: with no two calls sequential, the owner has lost the race
\* for the last element to a thief, and two items have been handed out.
C1_Witness ==
    /\ Quiescent /\ ~seqHist
    /\ ret.op = "pop" /\ ret.path = "lostlast"
    /\ nTaken >= 2

\* C2: a pop that returns false leaves bottom at the value it had when the
\* pop was called, and top = bottom when it returns (no undelivered item
\* is left behind), whichever of its three failing paths it took.
C2_FailedPopRestores ==
    (Idle(Owner) /\ ret.op = "pop" /\ ret.rc = 0)
        => (bottom = ret.b0 /\ top = bottom)

\* C2 witness: a pop has just failed because a thief advanced top past the
\* tentatively decremented bottom.
C2_Witness ==
    /\ Idle(Owner) /\ ret.op = "pop" /\ ret.rc = 0
    /\ ret.path = "overtaken"
    /\ nTaken >= 1

\* A step of the owner inside push: from the load of _top, and the two
\* stores.
PushDecision == pc[Owner] = "push_t" /\ pc'[Owner] # "push_t"
PushSlotWrite == pc[Owner] = "push_w" /\ pc'[Owner] # "push_w"
PushPublish == pc[Owner] = "push_s" /\ pc'[Owner] # "push_s"

\* C3: when push finds bottom >= top + capacity it returns false and
\* bottom, top and every slot are as they were; otherwise it returns true,
\* having stored the item in slot (bottom mod capacity) and raised bottom
\* by exactly one, and it never changes top.
C3_Push ==
    [][ /\ (pc[Owner] = "idle" /\ pc'[Owner] = "push_t")
            => UNCHANGED <<bottom, top, buffer>>
        /\ PushDecision =>
            /\ UNCHANGED <<bottom, top, buffer>>
            /\ bottom = lb[Owner]
            /\ IF bottom >= top + capacity
               THEN pc'[Owner] = "idle" /\ ret'.op = "push" /\ ret'.rc = 0
               ELSE pc'[Owner] = "push_w"
        /\ PushSlotWrite =>
            /\ UNCHANGED <<bottom, top>>
            /\ pc'[Owner] = "push_s"
            /\ \A sl \in DOMAIN buffer :
                  buffer'[sl] = IF sl = bottom % capacity THEN nextItem
                                ELSE buffer[sl]
        /\ PushPublish =>
            /\ UNCHANGED <<top, buffer>>
            /\ bottom' = bottom + 1
            /\ buffer[bottom % capacity] = ret'.val
            /\ pc'[Owner] = "idle" /\ ret'.op = "push" /\ ret'.rc = 1
      ]_vars

\* C3 witness: a push has just returned false on a queue of capacity 2
\* that holds 2 items.
C3_Witness ==
    /\ Idle(Owner) /\ ret.op = "push" /\ ret.rc = 0
    /\ capacity = 2 /\ bottom - top = 2

\* The contents of the ring from top to bottom, oldest first.
RingContents == [i \in 1..(bottom - top) |-> buffer[Slot(top + i - 1)]]

\* C4: in a run whose calls have not overlapped, a successful pop returns
\* the back of the reference deque (the newest undelivered item), a
\* successful steal returns its front (the oldest undelivered item), and
\* between calls the ring from top to bottom equals the reference deque.
C4_SequentialDeque ==
    /\ [](seqHist /\ Quiescent => RingContents = ref)
    /\ [][ /\ (seqHist /\ pc[Owner] # "idle" /\ pc'[Owner] = "idle"
                  /\ ret'.op = "pop" /\ ret'.rc = 1)
               => (Len(ref) > 0 /\ ret'.val = ref[Len(ref)])
           /\ \A th \in Thieves :
                 (seqHist /\ pc[th] = "st_cas" /\ pc'[th] = "idle")
                    => (Len(ref) > 0 /\ lval[th] = ref[1])
         ]_vars

\* C4 witness: a sequential run in which item 1 was stolen and item 3 was
\* then popped while item 2 stays queued.
C4_Witness ==
    /\ seqHist /\ Quiescent
    /\ dcount[1] = 1 /\ dcount[2] = 0 /\ dcount[3] = 1
    /\ ret.op = "pop" /\ ret.rc = 1 /\ ret.val = 3
    /\ ref = <<2>>

\* C5: whenever no push, pop or steal is in flight, volatile_size() is the
\* number of pushes that returned true minus the number of pops and steals
\* that returned true.
C5_SizeIsPushesMinusTakes ==
    Quiescent => volatile_size(bottom, top) = (nextItem - 1) - nTaken

\* C5 witness: the owner has just taken the last element through the
\* compare-exchange path (top advanced, bottom restored) after an earlier
\* delivery, and the queue is quiescent.
C5_Witness ==
    /\ Quiescent
    /\ ret.op = "pop" /\ ret.path = "wonlast"
    /\ nTaken >= 2 /\ top > InitTop + 1

\* c is 2^k for some k.
IsPowerOfTwo(c) == \E k \in 0..c : 2^k = c

\* The owner's last call was init on a queue that was not yet initialized.
InitOnFresh == ret.op = "init" /\ ret.b0 = 0

\* C6 as stated: init on a not-yet-initialized queue fails, leaving
\* capacity() = 0, when its argument is 0 or no power of two, and otherwise
\* succeeds with capacity() equal to the argument.
C6_InitAsStated ==
    InitOnFresh =>
        IF ret.val = 0 \/ ~IsPowerOfTwo(ret.val)
        THEN ret.rc = -1 /\ capacity = 0
        ELSE ret.rc = 0 /\ capacity = ret.val

\* C6 amended: init on a not-yet-initialized queue returns -1, leaving
\* capacity() = 0, when its argument is 0 or no power of two; otherwise it
\* returns 0 with capacity() equal to the argument and a ring of that many
\* slots, unless the allocation of the ring fails, in which case it
\* returns -1 and capacity() stays 0.  Once capacity() is nonzero it never
\* changes.
C6_Init ==
    /\ [](InitOnFresh =>
            IF ret.val = 0 \/ ~IsPowerOfTwo(ret.val)
            THEN ret.rc = -1 /\ capacity = 0 /\ ret.path # "nomem"
            ELSE \/ /\ ret.path # "nomem"
                    /\ ret.rc = 0 /\ capacity = ret.val
                    /\ DOMAIN buffer = 0..(ret.val - 1)
                 \/ /\ ret.path = "nomem"
                    /\ ret.rc = -1 /\ capacity = 0 /\ buffer = <<>>)
    /\ [][capacity # 0 => capacity' = capacity]_vars

\* C6 witness: init(2) has just succeeded on a fresh queue.
C6_Witness ==
    /\ InitOnFresh /\ ret.val = 2 /\ ret.rc = 0
    /\ capacity = 2

\* C7 as stated: the value init returns on an already initialized queue
\* differs from the values it returns for an invalid capacity.
C7_InitDistinguishable ==
    (ret.op = "init" /\ ret.b0 # 0)
        => (ret.rc # RcZeroCapacity /\ ret.rc # RcNotPowerOfTwo)

\* C7 amended: init on an already initialized queue returns -1 (the value
\* it also returns for an invalid capacity), whatever argument is passed,
\* and leaves capacity, the buffer, bottom and top unchanged.
C7_ReInit ==
    [][ (ret' # ret /\ ret'.op = "init" /\ capacity # 0)
            => /\ ret'.rc = -1
               /\ UNCHANGED <<capacity, buffer, bottom, top>>
      ]_vars

\* C7 witness: init has just been called on an initialized queue that
\* holds two items.
C7_Witness ==
    /\ ret.op = "init" /\ ret.b0 # 0
    /\ bottom - top = 2

\* C8: with every thread scheduled fairly (and at most MaxPush pushes),
\* every steal call returns; a steal's compare-exchange fails only when top
\* has moved past the value the steal last read; a steal whose re-check
\* finds t >= bottom returns; and every thread inside a call has a step it
\* can take.
C8_StealTerminates ==
    /\ \A th \in Thieves : (pc[th] # "idle") ~> (pc[th] = "idle")
    /\ [][ \A th \in Thieves :
              /\ (pc[th] = "st_cas" /\ pc'[th] = "st_b2") => top > lt[th]
              /\ (pc[th] = "st_b2" /\ pc'[th] # "st_b2" /\ lt[th] >= bottom)
                    => pc'[th] = "idle"
         ]_vars
    /\ [](/\ pc[Owner] # "idle" => ENABLED OwnerStep
          /\ \A th \in Thieves : pc[th] # "idle" => ENABLED ThiefStep(th))

\* C8 witness: a steal is back at its emptiness re-check after a failed
\* compare-exchange, with t at or beyond every bottom there has been (at
\* its first pass t was below the bottom of that time).
C8_Witness ==
    \E th \in Thieves : pc[th] = "st_b2" /\ lt[th] >= nextItem /\ lt[th] >= bottom

\* The running context has just been resumed by a bthread_jump_fcontext.
JustResumed == cpc[running] \in {"f_entry", "m_ret", "f_ret"}

\* C9: the value passed to bthread_jump_fcontext is what the resumed side
\* receives: fn's argument at the first switch into a made context (when
\* *ofc also holds a valid handle of the suspended caller), and the return
\* value of the resumed side's own suspended bthread_jump_fcontext
\* afterwards; so the sentinel fn passes back is what main's call returns.
C9_RoundTrip ==
    /\ JustResumed => recv[running] = lastSent
    /\ cpc["fiber"] = "f_entry" =>
          /\ running = "fiber"
          /\ entryArg = lastSent
          /\ hvar["main_h"].ctx = "main" /\ ValidHandle(hvar["main_h"])
    /\ cpc["main"] = "m_ret" =>
          /\ running = "main"
          /\ entryArg \in Vals
          /\ hvar["fiber_h"].ctx = "fiber" /\ ValidHandle(hvar["fiber_h"])

\* C9 witness: fn was started with 1, jumped back with 2, and main's call
\* has returned 2.
C9_Witness ==
    /\ running = "main" /\ cpc["main"] = "m_ret"
    /\ counter["fiber"] = 1
    /\ entryArg = 1 /\ recv["main"] = 2

\* C10: exactly one context is running at every instant; every resume
\* continues the resumed context where it last suspended; the counters in
\* the two stack frames advance in step, and after n rounds both equal n.
C10_BackAndForth ==
    /\ Cardinality({c \in Ctxs : saved[c].kind = "live"}) = 1
    /\ saved[running].kind = "live"
    /\ \A c \in Ctxs : (cpc[c] # "") = (c = running)
    /\ resumedAt # "" => resumedAt = suspendedAt[running]
    /\ JustResumed => cpc[running] = suspendedAt[running]
    /\ cpc["main"] = "m_ret" => counter["fiber"] = counter["main"]
    /\ cpc["main"] = "m_done" =>
          counter["main"] = iters /\ counter["fiber"] = iters

\* C10 witness: a run of three rounds has ended.
C10_Witness ==
    /\ cpc["main"] = "m_done"
    /\ iters = 3 /\ counter["main"] = 3 /\ counter["fiber"] = 3

\* C11 as stated: bottom >= top in every reachable state, the states
\* inside a pop included.
C11_BottomNeverBelowTop == bottom >= top

\* C11: bottom >= top in every state in which no pop is in flight; while a
\* pop is in flight, between its tentative store of bottom and its return,
\* a steal may advance top one past bottom, and never further.
C11_BottomGeTopOutsidePop ==
    /\ ~PopInFlight => bottom >= top
    /\ bottom + 1 >= top

\* C11 witness: a pop has stored its tentative bottom and a steal has
\* since advanced top past it.
C11_Witness ==
    /\ pc[Owner] = "pop_r"
    /\ bottom = lb[Owner] - 1
    /\ top = bottom + 1
    /\ nTaken >= 1

\* C12: once init has succeeded, bottom - top <= capacity in every state,
\* under every interleaving of push, pop and steal; a push that has decided
\* "not full" from its (possibly stale) load of top still publishes a
\* bottom that is within capacity of the current top.
C12_NeverOverCapacity ==
    capacity # 0 =>
        /\ bottom - top <= capacity
        /\ pc[Owner] \in {"push_w", "push_s"}
               => lb[Owner] + 1 - top <= capacity

\* C12 witness: the ring is full again after items have been taken out of
\* it, while a thief is inside steal.
C12_Witness ==
    /\ capacity # 0
    /\ bottom - top = capacity
    /\ Idle(Owner) /\ ret.op = "push" /\ ret.path = "pushed"
    /\ nTaken >= 1
    /\ \E th \in Thieves : ~Idle(th)

\* A thief's compare-and-exchange succeeds in this step.
StealWins(th) == pc[th] = "st_cas" /\ pc'[th] = "idle"

\* The owner's pop takes index newb in this step: it finds top below newb
\* and returns, or its compare-and-exchange on top succeeds.
PopWins ==
    \/ pc[Owner] = "pop_t2" /\ pc'[Owner] = "idle"
    \/ pc[Owner] = "pop_cas" /\ pc'[Owner] = "pop_won"

\* The value that pop has read from slot newb and returns if it wins.
PopValue == IF pc[Owner] = "pop_t2" THEN ret'.val ELSE lval[Owner]

\* C13: value integrity of a won race.  A steal whose CAS succeeds for
\* index t returns the value stored by the push that filled index t, and a
\* pop that returns true for index newb returns the value stored by the
\* push that filled newb; when push writes a slot, that slot belongs to no
\* index between top and bottom, and no thief that has read that slot for
\* its index can still win its CAS.
C13_ValueIntegrity ==
    [][ /\ \A th \in Thieves : StealWins(th) =>
              /\ filled[lt[th]] # 0
              /\ lval[th] = filled[lt[th]]
        /\ PopWins =>
              /\ filled[lb[Owner] - 1] # 0
              /\ PopValue = filled[lb[Owner] - 1]
        /\ (pc[Owner] = "pop_won" /\ pc'[Owner] = "idle") =>
              (ret'.rc = 1 /\ ret'.val = lval[Owner])
        /\ PushSlotWrite =>
              /\ \A i \in top..(bottom - 1) : Slot(i) # Slot(lb[Owner])
              /\ \A th \in Thieves :
                    (pc[th] = "st_cas" /\ Slot(lt[th]) = Slot(lb[Owner]))
                        => top > lt[th]
      ]_vars

\* C13 witness: push has written a slot that a thief had read for an index
\* top has since passed, and an item has been delivered.
C13_Witness ==
    /\ pc[Owner] = "push_s"
    /\ \E th \in Thieves :
          /\ pc[th] = "st_cas"
          /\ Slot(lt[th]) = Slot(lb[Owner])
          /\ lval[th] # buffer[Slot(lt[th])]
    /\ nTaken >= 1

\* A step of a thief, of the owner inside push, of the owner inside pop.
ThiefActs(th) == pc'[th] # pc[th]
PushActs ==
    /\ pc'[Owner] # pc[Owner]
    /\ pc[Owner] \in {"push_t", "push_w", "push_s"} \/ pc'[Owner] = "push_t"
PopActs ==
    /\ pc'[Owner] # pc[Owner]
    /\ PopInFlight \/ pc'[Owner] = "pop_t"

\* C14: write ownership of the counters.  No step of steal changes bottom;
\* no step of push changes top; a step of pop changes top only at its
\* compare-and-exchange, reached with top = newb, and only when the
\* exchange succeeds; a step of steal changes top only when its
\* compare-and-exchange succeeds; no step of push, pop or steal changes
\* capacity.
C14_WriteOwnership ==
    [][ /\ (\E th \in Thieves : ThiefActs(th)) =>
              /\ bottom' = bottom
              /\ capacity' = capacity
              /\ top' # top =>
                    \E th \in Thieves :
                        /\ StealWins(th)
                        /\ lt[th] = top
                        /\ top' = lt[th] + 1
        /\ PushActs => (top' = top /\ capacity' = capacity)
        /\ PopActs =>
              /\ capacity' = capacity
              /\ top' # top =>
                    /\ pc[Owner] = "pop_cas" /\ pc'[Owner] = "pop_won"
                    /\ lt[Owner] = top
                    /\ top = lb[Owner] - 1
                    /\ top' = top + 1
      ]_vars

\* C14 witness: top has been advanced twice by successful
\* compare-and-exchanges, the last of them the owner's, in a pop that took
\* the last element while a thief was inside steal.
C14_Witness ==
    /\ Idle(Owner) /\ ret.op = "pop" /\ ret.path = "wonlast"
    /\ top = InitTop + 2 /\ nTaken >= 2
    /\ \E th \in Thieves : ~Idle(th)

\* The threads whose compare-and-exchange on top succeeds in this step.
CasWinners ==
    {th \in Thieves : StealWins(th)}
        \cup {th \in {Owner} : pc[Owner] = "pop_cas" /\ pc'[Owner] = "pop_won"}

\* C15: top is an ever-increasing claim counter.  Every change of top
\* raises it by exactly one and is the successful compare-and-exchange of
\* exactly one thread, whose expected value is the current top; the item at
\* the index it claims has been delivered to no one, so no value of top is
\* claimed twice.
C15_TopClaimCounter ==
    [][ top' # top =>
          /\ top' = top + 1
          /\ Cardinality(CasWinners) = 1
          /\ \A th \in CasWinners : lt[th] = top
          /\ filled[top] # 0
          /\ dcount[filled[top]] = 0
      ]_vars

\* C15 witness: a thief holds an expected value that top has already left
\* behind, after the owner and a thief have each claimed an index.
C15_Witness ==
    /\ \E th \in Thieves : pc[th] = "st_cas" /\ lt[th] < top
    /\ ret.op = "pop" /\ ret.path = "wonlast"
    /\ top >= InitTop + 2

\* The steal call of th returns false in this step.
StealFails(th) ==
    pc[th] # "idle" /\ pc'[th] = "idle" /\ nTaken' = nTaken

\* C16: steal reports no false positive, and a false negative only under
\* contention.  A steal that returns true returns an item whose push has
\* returned and that has been delivered to no one before; a steal that
\* returns false met, in some state between its call and its return, an
\* empty queue or a pop in flight (so it returns true whenever the queue
\* holds an item and no pop is in flight throughout the call).
C16_StealFalseOnlyIfDisturbed ==
    [][ /\ \A th \in Thieves : StealWins(th) =>
              /\ nTaken' = nTaken + 1
              /\ lval[th] \in Pushed
              /\ dcount[lval[th]] = 0
        /\ StealFails(Watched) => disturbed
      ]_vars

\* C16 witness: since the watched steal was called the queue has held an
\* item and no pop has been in flight, and the steal is about to lose its
\* compare-and-exchange to another thief and try again.
C16_Witness ==
    /\ tracing /\ ~disturbed
    /\ pc[Watched] = "st_cas"
    /\ top > lt[Watched]
    /\ top < bottom

\* C17: whenever no pop is in flight, top <= bottom <= top + capacity,
\* whatever the thieves are doing; a pop that has returned, by any of its
\* five paths, has left top <= bottom, and one that won the last element
\* has left bottom at its value before the call, equal to top.
C17_BoundsOutsidePop ==
    /\ ~PopInFlight => (top <= bottom /\ bottom <= top + capacity)
    /\ (Idle(Owner) /\ ret.op = "pop") =>
          /\ ret.path \in {"empty", "overtaken", "uncontended", "wonlast",
                           "lostlast"}
          /\ top <= bottom
    /\ (Idle(Owner) /\ ret.op = "pop" /\ ret.path = "wonlast") =>
          (ret.rc = 1 /\ bottom = ret.b0 /\ top = bottom)

\* C17 witness: a pop has won the last element against a thief that is
\* still holding the value it read and is about to lose its exchange.
C17_Witness ==
    /\ Idle(Owner) /\ ret.op = "pop" /\ ret.path = "wonlast"
    /\ bottom = ret.b0
    /\ \E th \in Thieves : pc[th] = "st_cas" /\ lval[th] = ret.val

\* The bottom and the top that the volatile_size() call of the watched
\* thread compares if its second load is the next step.
VsB == IF pc[Watched] = "vs_t" THEN lb[Watched] ELSE bottom
VsT == IF pc[Watched] = "vs_t" THEN top ELSE lt[Watched]

\* The call has made one load and its second may be the next step.
VsLoading == pc[Watched] \in {"vs_t", "vs_b"}

\* C18 as stated: volatile_size() returns a value between 0 and capacity
\* inclusive in every reachable state, and 0 when the bottom it read is <=
\* the top it read.
C18_SizeWithinCapacity ==
    VsLoading =>
        /\ VsResult(Watched) \in 0..capacity
        /\ VsB <= VsT => VsResult(Watched) = 0

\* C18: volatile_size() returns 0 when the bottom it read is <= the top it
\* read and their difference otherwise, never a negative or wrapped value
\* and never more than the number of pushes that have returned true; when
\* the load of bottom is satisfied before the load of top the value is at
\* most capacity, whatever push, pop and steal did between the two loads.
C18_SizeClamped ==
    VsLoading =>
        /\ VsResult(Watched) \in 0..(nextItem - 1)
        /\ VsB <= VsT => VsResult(Watched) = 0
        /\ VsB > VsT => VsResult(Watched) = VsB - VsT
        /\ pc[Watched] = "vs_t" => VsResult(Watched) <= capacity

\* C18 witness: volatile_size() has read the bottom a pop had tentatively
\* decremented and is about to read a top that a steal has advanced past
\* it.
C18_Witness ==
    /\ pc[Watched] = "vs_t"
    /\ lb[Watched] < top
    /\ PopInFlight /\ bottom = lb[Watched]
    /\ nTaken >= 1

\* C19: while no init has succeeded (capacity is 0 and the buffer is
\* null), bottom and top keep the common value they started with, push and
\* pop return false from their first test and steal from its first test,
\* before any access to a slot or store to a counter, no item is ever
\* taken, volatile_size() returns 0 and capacity() returns 0.
C19_UninitializedFails ==
    capacity = InitCapacity =>
        /\ buffer = <<>>
        /\ InitBottom = InitTop
        /\ bottom = InitBottom /\ top = InitTop
        /\ pc[Owner] \in {"idle", "push_t", "pop_t"}
        /\ \A th \in Thieves : pc[th] \in {"idle", "st_b", "vs_t", "vs_b"}
        /\ ret.op \in {"push", "pop"} => ret.rc = 0
        /\ nextItem = 1 /\ nTaken = 0
        /\ VsLoading => VsResult(Watched) = 0
        /\ QueueCapacity = 0

\* C19 witness: on a queue without a successful init a push has returned
\* false while a steal and a volatile_size() call are in flight.
C19_Witness ==
    /\ capacity = InitCapacity
    /\ Idle(Owner) /\ ret.op = "push" /\ ret.rc = 0
    /\ VsLoading
    /\ \E th \in Thieves : pc[th] = "st_b"

====
